---- MODULE Spec2Model ----
(***************************************************************************)
(* The multi-locality-group repairer of src/leveldb/db/repair.cc:          *)
(* DBRepairer (the coordinator) and one Repairer per locality group (LG).  *)
(* The state is the database directory (the disk) plus the fields of the   *)
(* two classes and the position of DBRepairer::Run.  One action is one     *)
(* step of Run between two filesystem operations.                          *)
(***************************************************************************)
EXTENDS Integers, Sequences, FiniteSets, TLC

\* ---------------------------------------------------------------- bounds
\* Sequence numbers are uint64_t in the code; the model keeps the wrap-around
\* of unsigned arithmetic at 2^SeqBits instead of 2^64.
SeqBits == 3
\* Largest number of locality groups in exist_lg_list.
MaxLgs == 2
\* Largest number of mutations in one write batch.
MaxEntries == 2
\* Largest number of records in all WAL files of one directory together.
MaxRecs == 2
\* Largest number of WAL files in the root directory.
MaxLogs == 2
\* Largest number of Env operations that fail in one run.
MaxFaults == 2
\* Largest number of times the process is stopped and repair started again.
MaxCrash == 1
\* Largest number of an old descriptor file.
MaxManifest == 2
\* Failing Env operations in the runs with many WAL records.
ReplayFaults == 1
\* WAL files, and records in them, in the runs with many failing operations.
InstallLogs == 1
InstallRecs == 1
\* keys of a table scanned on its own, user keys and sequence numbers in them
MaxKeys == 3
MaxUser == 2
MaxKeySeq == 2
\* failing operations, WAL files and records of a repair that is run twice
RerunFaults == 1
RerunLogs == 1
RerunRecs == 1

Top == 2 ^ SeqBits
AllLg == 0 .. (MaxLgs - 1)
NoLg == -1
LogNums == 1 .. MaxLogs

\* ------------------------------------------------------------- arithmetic
\* uint64_t addition, and the expression  seq + count - 1  of lines 275, 662.
AddU(a, b) == (a + b) % Top
LastOf(seq, count) == (seq + count + Top - 1) % Top

Max(S) == CHOOSE x \in S : \A y \in S : y <= x
Min(S) == CHOOSE x \in S : \A y \in S : x <= y

RECURSIVE SortedSeq(_)
\* The elements of a finite set of numbers in ascending order.
SortedSeq(S) == IF S = {} THEN <<>> ELSE <<Min(S)>> \o SortedSeq(S \ {Min(S)})

Range(s) == {s[i] : i \in 1 .. Len(s)}

\* Files of a directory as a function  number -> content.
NoFiles == [n \in {} |-> {}]
Put(f, k, v) == [x \in (DOMAIN f) \cup {k} |-> IF x = k THEN v ELSE f[x]]
Del(f, k) == [x \in (DOMAIN f) \ {k} |-> f[x]]

\* ------------------------------------------------------------------ values
\* Status: OK, or an error naming the failed operation and its LG.  NotRun
\* stands for a WriteDescriptor that has not returned.
OK == <<"OK", NoLg>>
NotRun == <<"not run", NoLg>>
Err(op, g) == <<op, g>>
IsOk(s) == s = OK

\* A WAL record: shorter than the 12-byte batch header, or a write batch
\* with its header sequence and its mutations, each tagged with an LG id
\* (the count of the header is the number of mutations).
\* len is the size of the record in bytes: a short record has fewer
\* than HeaderSize, a batch has its header and its mutations.
HeaderSize == 12
ShortRec(l) == [short |-> TRUE, seq |-> 0, tags |-> <<>>, len |-> l]
Batch(s, t) == [short |-> FALSE, seq |-> s, tags |-> t, len |-> HeaderSize + Len(t)]
Count(b) == Len(b.tags)

\* A mutation as it lies in a memtable or a table: the LG tag of its key and
\* the sequence number of its internal key.
Mut(t, s) == [tag |-> t, seq |-> s]

\* A VersionEdit as WriteDescriptor fills it (lines 406-416).
NullEdit == [log_number |-> 0, next_file |-> 0, last_sequence |-> 0, files |-> <<>>]
\* The content of a descriptor file: one never written by repair, or the
\* edit repair encoded into it.
OldManifest == [new |-> FALSE, edit |-> NullEdit]
NewManifest(e) == [new |-> TRUE, edit |-> e]
\* The temp descriptor file: absent, created and still empty, or written.
NoTmp == [state |-> "none", edit |-> NullEdit]
EmptyTmp == [state |-> "empty", edit |-> NullEdit]
WrittenTmp(e) == [state |-> "written", edit |-> e]
\* mem_ of a Repairer: NULL, or a memtable and the mutations in it.
NoMem == [has |-> FALSE, muts |-> {}]
MemOf(m) == [has |-> TRUE, muts |-> m]

VARIABLES
  \* the disk
  wal,          \* root: WAL number -> its records (content of every WAL ever there)
  rootLogs,     \* root: numbers of the WAL files at their original path
  dirOrder,     \* root: the order in which GetChildren returns the WAL files
  lostLogs,     \* root/lost: WAL files archived
  rootOther,    \* root has children that are not WAL files
  lgDir,        \* LG ids whose subdirectory exists
  sst,          \* LG -> (table number -> set of mutations)
  lostSst,      \* LG -> table numbers under lost/
  man,          \* LG -> (descriptor number -> content)
  lostMan,      \* LG -> descriptor numbers under lost/
  tmp,          \* LG -> the temp descriptor file 000001.dbtmp
  current,      \* LG -> descriptor number named by CURRENT, 0 when missing
  \* DBRepairer
  lgList,       \* options_.exist_lg_list
  logfiles_, log_number_, last_sequence_,
  pc, gi, li, ri, mi, ti,   \* position of Run: LG, log, record, manifest, table
  status,       \* the status local of DBRepairer::WriteDescriptor
  ret,          \* what Run returned
  \* Repairer, per LG
  manifests_, table_numbers_, tables_, next_file_number_, mem_, max_sequence_,
  edit_,
  \* observations of the run
  rec,          \* what the last ReadRecord iteration did
  replayStart,  \* last_sequence_ when ConvertLogFilesToTables began
  replayed,     \* WAL numbers in the order they were opened
  wd,           \* LG -> status returned by its WriteDescriptor
  wdLog,        \* LG -> the steps of its WriteDescriptor: <<step, file, ok>>
  preMan,       \* LG -> descriptor numbers present before the first run
  preSst,       \* LG -> tables (number -> mutations) present before the first run
  faults,       \* Env failures still to come
  crashes,      \* process stops still to come
  walLog,       \* the WAL files opened and archived: <<step, file, ok>>
  tabLog,       \* LG -> the tables scanned and built, in order
  first,        \* the descriptors of the run before this one
  scan,         \* a ScanTable call on its own: the keys and the TableInfo
  handles       \* the file objects that exist: <<"lfile", WAL>>, <<"file", LG>>

disk == <<wal, rootLogs, dirOrder, lostLogs, rootOther, lgDir, sst, lostSst,
          man, lostMan, tmp, current>>
coord == <<lgList, logfiles_, log_number_, last_sequence_, status, ret>>
cursor == <<pc, gi, li, ri, mi, ti>>
lgs == <<manifests_, table_numbers_, tables_, next_file_number_, mem_,
         max_sequence_, edit_>>
obs == <<rec, replayStart, replayed, wd, wdLog, preMan, preSst, faults, crashes>>
more == <<walLog, tabLog, first, scan, handles>>
vars == <<disk, coord, cursor, lgs, obs, more>>


\* ------------------------------------------------------------------ inputs
RECURSIVE SumLen(_, _)
SumLen(w, n) == IF n = 0 THEN 0 ELSE Len(w[n]) + SumLen(w, n - 1)

SeqsUpTo(S, n) == UNION {[1 .. m -> S] : m \in 0 .. n}

\* Header sequence numbers of the WAL records tried: small ones and the
\* largest value of the type.
SeqIn == {1, Top - 1}

\* The WAL records tried for a database whose LG ids are lgl.
ShortLens == {0, HeaderSize - 1}
Records(lgl, seqs, maxEntries) ==
  {ShortRec(l) : l \in ShortLens} \cup {Batch(s, t) : s \in seqs, t \in SeqsUpTo(lgl, maxEntries)}

\* WAL files 1..k of the root directory, at most maxRecs records together,
\* and the order in which the directory lists them.
WalChoices(R, maxLogs, maxRecs, orders(_)) ==
  UNION {
    {<<w, o>> : w \in {x \in [1 .. k -> SeqsUpTo(R, maxRecs)] : SumLen(x, k) <= maxRecs},
                o \in orders(k)}
    : k \in 0 .. maxLogs}

AnyOrder(k) == Permutations(1 .. k)
Ascending(k) == {[i \in 1 .. k |-> i]}

\* The tables of LG g before repair: none, table 1 without a parseable key,
\* or table 1 holding one mutation of sequence s.
TableChoices(g, seqs) ==
  {NoFiles} \cup {Put(NoFiles, 1, c) : c \in {{}} \cup {{Mut(g, s)} : s \in seqs}}

\* The descriptors of an LG before repair and what CURRENT names.
ManChoices(nums) ==
  UNION {{<<[n \in D |-> OldManifest], c>> : c \in {0} \cup D} : D \in SUBSET nums}

\* What ExtractMetaData or the flush loop did with table n: whether a file
\* was at its name before, whether one was there to be scanned (a table
\* listed, or a build that wrote an entry), whether the scan passed and whether the
\* ArchiveFile of a failed scan moved it.
TableEvent(op, n, existed, built, scanned, moved) ==
  [op |-> op, number |-> n, existed |-> existed, built |-> built,
   scanned |-> scanned, moved |-> moved]

\* No run before this one.
NoFirst == [ran |-> FALSE, faults |-> 0, edit |-> [g \in AllLg |-> NullEdit]]

\* Internal keys of a table as its iterator yields them: parseable ones
\* with a user key and a sequence number, and ones ParseInternalKey rejects.
NoKey == [ok |-> FALSE, user |-> 0, seq |-> 0]
NoScan == [keys |-> <<>>, i |-> 0, sizeOk |-> TRUE, iterOk |-> TRUE, empty |-> TRUE,
           smallest |-> NoKey, largest |-> NoKey, max_sequence |-> 0,
           counter |-> 0, skipped |-> 0, status |-> "none"]

\* ------------------------------------------------------------ construction
\* Repairer::Repairer (lines 56-72), DBRepairer::DBRepairer (491-503).
ProgInit ==
  /\ logfiles_ = <<>> /\ log_number_ = 0 /\ last_sequence_ = 0
  /\ status = OK /\ ret = OK
  /\ pc = "FindFiles" /\ gi = NoLg /\ li = 1 /\ ri = 1 /\ mi = 1 /\ ti = 1
  /\ manifests_ = [g \in AllLg |-> <<>>]
  /\ table_numbers_ = [g \in AllLg |-> <<>>]
  /\ tables_ = [g \in AllLg |-> <<>>]
  /\ next_file_number_ = [g \in AllLg |-> 1]
  /\ mem_ = [g \in AllLg |-> NoMem]
  /\ max_sequence_ = [g \in AllLg |-> 0]
  /\ edit_ = [g \in AllLg |-> NullEdit]
  /\ rec = [kind |-> "none", seq |-> 0, count |-> 0, last |-> 0, calls |-> {},
           len |-> 0, bytes |-> 0]
  /\ replayStart = 0 /\ replayed = <<>>
  /\ wd = [g \in AllLg |-> NotRun]
  /\ wdLog = [g \in AllLg |-> <<>>]
  /\ walLog = <<>>
  /\ tabLog = [g \in AllLg |-> <<>>]

\* The directory before repair.  LL: the exist_lg_list values; WC: the WAL
\* files; TC, MC: tables and descriptors per LG; DD: whether the LG
\* subdirectories exist.
InitWith(LL, WC(_), TC(_), MC, DD(_), nFaults, nCrashes) ==
  /\ lgList \in LL
  /\ \E wc \in WC(lgList) :
       /\ wal = wc[1]
       /\ dirOrder = wc[2]
       /\ rootLogs = DOMAIN wc[1]
  /\ lostLogs = {}
  /\ lgDir \in DD(lgList)
  /\ rootOther \in IF lgDir = {} THEN BOOLEAN ELSE {TRUE}
  /\ sst \in [AllLg -> UNION {TC(g) : g \in AllLg}]
  /\ \A g \in AllLg : sst[g] \in IF g \in lgDir THEN TC(g) ELSE {NoFiles}
  /\ lostSst = [g \in AllLg |-> {}]
  /\ \E mc \in [AllLg -> MC \cup {<<NoFiles, 0>>}] :
       /\ \A g \in lgDir : mc[g] \in MC
       /\ \A g \in AllLg \ lgDir : mc[g] = <<NoFiles, 0>>
       /\ man = [g \in AllLg |-> mc[g][1]]
       /\ current = [g \in AllLg |-> mc[g][2]]
  /\ lostMan = [g \in AllLg |-> {}]
  /\ tmp = [g \in AllLg |-> NoTmp]
  /\ preMan = [g \in AllLg |-> DOMAIN man[g]]
  /\ preSst = sst
  /\ faults = nFaults
  /\ crashes = nCrashes
  /\ first = NoFirst
  /\ scan = NoScan
  /\ handles = {}
  /\ ProgInit

\* ----------------------------------------------------------------- helpers
\* The LG after g in exist_lg_list (a std::set, iterated in ascending order).
FirstLg == IF lgList = {} THEN NoLg ELSE Min(lgList)
NextLg(g) == IF \E h \in lgList : h > g THEN Min({h \in lgList : h > g}) ELSE NoLg

\* The vector repairers as the constructor fills it (lines 497-502): one
\* Repairer per element of exist_lg_list in ascending order, here the id of
\* the subdirectory each was constructed for.
Repairers == SortedSeq(lgList)

\* repairers[id] (lines 507, 550, 702, 643, 673, 713): the element at index
\* id of the vector, NoLg when the index is past its end.
RepairerAt(id) == IF id < Len(Repairers) THEN Repairers[id + 1] ELSE NoLg

\* Every lookup the coordinator makes with the ids of exist_lg_list is
\* inside the vector.
LookupsInRange == \A id \in lgList : RepairerAt(id) # NoLg

\* An Env call succeeds or, while failures remain, fails.
Outcomes == IF faults > 0 THEN BOOLEAN ELSE {TRUE}
Cost(b) == IF b THEN 0 ELSE 1


\* ArchiveFile (lines 450-469): rename dir/foo to dir/lost/foo; the rename
\* fails when the file is not there, when its directory is not, or when Env
\* says so.  The caller never sees the result.
ArchiveOk(present, ok) == present /\ ok

\* ------------------------------------------------------------- discovery
\* Repairer::FindFiles (lines 136-167) for LG g: descriptors are listed,
\* every other parsed name advances next_file_number_, tables are listed.
\* CURRENT parses as number 0 and the temp descriptor as number 1.
ObservedNumbers(g) ==
  (DOMAIN sst[g]) \cup (IF tmp[g].state # "none" THEN {1} ELSE {})
                  \cup (IF current[g] # 0 THEN {0} ELSE {})

\* next_file_number_ set to the largest number seen instead of one more.
NextFileNumberLargest(nums) == Max({1} \cup nums)

NextFileNumber(nums) == Max({1} \cup {n + 1 : n \in nums})

\* A FindFiles in which descriptor numbers advance next_file_number_ too.
LgFindFilesCountingManifests(g, ok) ==
  IF ok /\ g \in lgDir
    THEN [manifests |-> SortedSeq(DOMAIN man[g]),
          tables |-> SortedSeq(DOMAIN sst[g]),
          next |-> NextFileNumber(ObservedNumbers(g) \cup DOMAIN man[g])]
    ELSE [manifests |-> <<>>, tables |-> <<>>, next |-> 1]

\* What Repairer::FindFiles leaves in manifests_, table_numbers_ and
\* next_file_number_; nothing when GetChildren fails (lines 140-145).
LgFindFiles(g, ok) ==
  IF ok /\ g \in lgDir
    THEN [manifests |-> SortedSeq(DOMAIN man[g]),
          tables |-> SortedSeq(DOMAIN sst[g]),
          next |-> NextFileNumber(ObservedNumbers(g))]
    ELSE [manifests |-> <<>>, tables |-> <<>>, next |-> 1]

\* The WAL files of the root as GetChildren lists them.
ListedLogs == SelectSeq(dirOrder, LAMBDA n : n \in rootLogs)

\* logfiles_ as DBRepairer::FindFiles leaves it (lines 537-546).
CollectLogs(listed) == listed

\* A test for a root without WAL files instead of one without children.
RootWithoutLogs == rootLogs = {}

\* filenames.empty() after GetChildren on the root (line 531).
RootEmpty == rootLogs = {} /\ lgDir = {} /\ ~rootOther

\* DBRepairer::FindFiles (lines 525-553), the first step of Run (514-522).
DBFindFiles ==
  /\ pc = "FindFiles"
  /\ IF LookupsInRange
       THEN
          /\ \E okRoot \in Outcomes, bad \in SUBSET lgList :
               /\ Cardinality(bad) + Cost(okRoot) <= faults
               /\ ~okRoot => bad = {}
               /\ RootEmpty => bad = {}
               /\ faults' = faults - Cardinality(bad) - Cost(okRoot)
               /\ IF ~okRoot \/ RootEmpty
                    THEN /\ ret' = IF okRoot THEN Err("IOError: repair found no files", NoLg)
                                             ELSE Err("GetChildren", NoLg)
                         /\ pc' = "done"
                         /\ UNCHANGED <<logfiles_, log_number_, manifests_, table_numbers_,
                                        next_file_number_, gi, ti>>
                    ELSE /\ logfiles_' = CollectLogs(ListedLogs)
                         /\ log_number_' = Max({0} \cup {n + 1 : n \in rootLogs})
                         /\ manifests_' = [g \in AllLg |->
                              IF g \in lgList THEN LgFindFiles(g, g \notin bad).manifests
                                              ELSE manifests_[g]]
                         /\ table_numbers_' = [g \in AllLg |->
                              IF g \in lgList THEN LgFindFiles(g, g \notin bad).tables
                                              ELSE table_numbers_[g]]
                         /\ next_file_number_' = [g \in AllLg |->
                              IF g \in lgList THEN LgFindFiles(g, g \notin bad).next
                                              ELSE next_file_number_[g]]
                         /\ pc' = "ExtractMetaData"
                         /\ gi' = FirstLg
                         /\ ti' = 1
                         /\ ret' = ret
          /\ UNCHANGED <<disk, lgList, last_sequence_, status, li, ri, mi>>
          /\ UNCHANGED <<tables_, mem_, max_sequence_, edit_>>
          /\ UNCHANGED <<rec, replayStart, replayed, wd, wdLog, preMan, preSst, crashes>>
       ELSE /\ \E crash \in BOOLEAN : pc' = IF crash THEN "aborted" ELSE "undefined"
            /\ UNCHANGED <<disk, coord, gi, li, ri, mi, ti, lgs, obs>>

  /\ UNCHANGED more
\* ------------------------------------------------------------ table scan
\* A TableInfo (lines 112-115): the table's number and the largest sequence
\* number among its keys.
TableInfo(n, muts) == [number |-> n, max_sequence |-> Max({0} \cup {m.seq : m \in muts})]

\* A scan that passes a table without a parseable key.
ScanOkWhenEmpty(g, n, files, ok) == ok /\ n \in DOMAIN files

\* Repairer::ScanTable (lines 345-389) on table n of LG g: fails when the
\* file size cannot be read, when the iterator reports an error, and when no
\* key parses.
ScanOk(g, n, files, ok) == ok /\ n \in DOMAIN files /\ files[n] # {}

\* One iteration of the loop of Repairer::ExtractMetaData (lines 325-342).
ScanStep ==
  /\ pc = "ExtractMetaData"
  /\ ti <= Len(table_numbers_[gi])
  /\ LET g == RepairerAt(gi)
         n == table_numbers_[g][ti]
     IN \E okScan \in Outcomes, okMove \in Outcomes :
          /\ Cost(okScan) + Cost(okMove) <= faults
          /\ faults' = faults - Cost(okScan) - Cost(okMove)
          /\ ~ScanOk(g, n, sst[g], TRUE) => okScan
          /\ tabLog' = [tabLog EXCEPT ![g] = Append(@,
               TableEvent("scan", n, n \in DOMAIN sst[g], n \in DOMAIN sst[g],
                          ScanOk(g, n, sst[g], okScan),
                          ~ScanOk(g, n, sst[g], okScan)
                            /\ ArchiveOk(n \in DOMAIN sst[g], okMove)))]
          /\ IF ScanOk(g, n, sst[g], okScan)
               THEN /\ okMove
                    /\ tables_' = [tables_ EXCEPT ![g] = Append(@, TableInfo(n, sst[g][n]))]
                    /\ max_sequence_' = [max_sequence_ EXCEPT
                         ![g] = IF TableInfo(n, sst[g][n]).max_sequence > @
                                  THEN TableInfo(n, sst[g][n]).max_sequence ELSE @]
                    /\ UNCHANGED <<sst, lostSst>>
               ELSE /\ (n \notin DOMAIN sst[g]) => okMove
                    /\ IF ArchiveOk(n \in DOMAIN sst[g], okMove)
                         THEN /\ sst' = [sst EXCEPT ![g] = Del(@, n)]
                              /\ lostSst' = [lostSst EXCEPT ![g] = @ \cup {n}]
                         ELSE UNCHANGED <<sst, lostSst>>
                    /\ UNCHANGED <<tables_, max_sequence_>>
  /\ ti' = ti + 1
  /\ UNCHANGED <<wal, rootLogs, dirOrder, lostLogs, rootOther, lgDir, man, lostMan,
                 tmp, current>>
  /\ UNCHANGED <<coord, pc, gi, li, ri, mi>>
  /\ UNCHANGED <<manifests_, table_numbers_, next_file_number_, mem_, edit_>>
  /\ UNCHANGED <<rec, replayStart, replayed, wd, wdLog, preMan, preSst, crashes>>

  /\ UNCHANGED <<walLog, first, scan, handles>>
\* The end of one LG's ExtractMetaData in DBRepairer::ExtractMetaData
\* (lines 699-707): last_sequence_ takes the LG's max_sequence_ if larger.
ExtractDone ==
  /\ pc = "ExtractMetaData"
  /\ ti > Len(table_numbers_[gi])
  /\ last_sequence_' = IF last_sequence_ < max_sequence_[RepairerAt(gi)]
                         THEN max_sequence_[RepairerAt(gi)] ELSE last_sequence_
  /\ IF NextLg(gi) # NoLg
       THEN /\ gi' = NextLg(gi)
            /\ ti' = 1
            /\ UNCHANGED <<pc, li, replayStart>>
       ELSE /\ pc' = "ConvertLog"
            /\ li' = 1
            /\ replayStart' = last_sequence_'
            /\ UNCHANGED <<gi, ti>>
  /\ UNCHANGED <<disk, lgList, logfiles_, log_number_, status, ret, ri, mi, lgs>>
  /\ UNCHANGED <<rec, replayed, wd, wdLog, preMan, preSst, faults, crashes>>

  /\ UNCHANGED more

\* The duplicate test taken by the last sequence number of the record.
IsDuplicateByRange(batch_seq, batch_count, last) == LastOf(batch_seq, batch_count) <= last

\* ------------------------------------------------------------- WAL replay
\* A size test that lets a record of HeaderSize - 1 bytes through.
TooSmallByOne(b) == b.len < HeaderSize - 1

\* The size test of DBRepairer::ConvertLogToTable (line 606).
TooSmall(b) == b.len < HeaderSize

\* The duplicate test of DBRepairer::ConvertLogToTable (line 614).
IsDuplicate(batch_seq, batch_count, last) == batch_seq <= last

\* lg_batchs after lines 621-638 for a database of n LGs: the batch itself
\* for one LG; otherwise SeperateLocalityGroup puts the mutations tagged i,
\* in their order, into a new batch i stamped with the sequence of the
\* parent, and leaves the entry null when there are none.
SubBatch(tags, i) == SelectSeq(tags, LAMBDA t : t = i)
Targets(tags, n) ==
  IF n > 1 THEN {i \in 0 .. (n - 1) : SubBatch(tags, i) # <<>>} ELSE {0}
LgBatch(tags, n, i) == IF n > 1 THEN SubBatch(tags, i) ELSE tags

\* WriteBatchInternal::InsertInto: entry j of a batch gets sequence seq+j-1;
\* the first k entries reach the memtable.
Inserted(tags, seq, k) == {Mut(tags[j], AddU(seq, j - 1)) : j \in 1 .. k}

\* The assertion of Repairer::InsertMemTable (line 274).
AssertHolds(batch_seq, max_seq) == batch_seq > max_seq
\* max_sequence_ after Repairer::InsertMemTable (line 275).
MaxAfterInsert(batch_seq, count) == LastOf(batch_seq, count)
\* A last_sequence_ that is set to the first sequence number of the record.
LastAfterRecordFirst(batch_seq, batch_count) == batch_seq
\* last_sequence_ after a record was routed (line 662).
LastAfterRecord(batch_seq, batch_count) == LastOf(batch_seq, batch_count)

\* Repairer::InsertMemTable (lines 269-277) seen from its caller.
InsertCall(i, b, n) ==
  [lg |-> i, seq |-> b.seq, count |-> Len(LgBatch(b.tags, n, i)),
   maxBefore |-> max_sequence_[RepairerAt(i)],
   maxAfter |-> MaxAfterInsert(b.seq, Len(LgBatch(b.tags, n, i)))]

\* The head of ConvertLogFilesToTables' loop (lines 556-558) and the opening
\* of the WAL in ConvertLogToTable (584-589).  A WAL that cannot be opened
\* goes straight to its archiving.
OpenLog ==
  /\ pc = "ConvertLog"
  /\ li <= Len(logfiles_)
  /\ \E okOpen \in Outcomes :
       /\ (logfiles_[li] \notin rootLogs) => okOpen
       /\ faults' = faults - Cost(okOpen)
       /\ walLog' = Append(walLog, <<"open", logfiles_[li],
                                      okOpen /\ logfiles_[li] \in rootLogs>>)
       /\ IF okOpen /\ logfiles_[li] \in rootLogs
            THEN /\ pc' = "ReadRecord"
                 /\ ri' = 1
                 /\ replayed' = Append(replayed, logfiles_[li])
                 /\ handles' = handles \cup {<<"lfile", logfiles_[li]>>}
            ELSE /\ pc' = "ArchiveLog"
                 /\ UNCHANGED <<ri, replayed, handles>>
  /\ UNCHANGED <<disk, coord, gi, li, mi, ti, lgs>>
  /\ UNCHANGED <<rec, replayStart, wd, wdLog, preMan, preSst, crashes>>

  /\ UNCHANGED <<tabLog, first, scan>>
\* One iteration of the record loop of ConvertLogToTable (lines 605-663).
ReadRecord ==
  /\ pc = "ReadRecord"
  /\ ri <= Len(wal[logfiles_[li]])
  /\ LET b == wal[logfiles_[li]][ri]
         n == Cardinality(lgList)
         T == Targets(b.tags, n)
         broken == {i \in T : ~AssertHolds(b.seq, max_sequence_[RepairerAt(i)])}
         seen(kind) == [kind |-> kind, seq |-> b.seq, count |-> Count(b),
                        last |-> last_sequence_, calls |-> {},
                        len |-> b.len, bytes |-> IF kind = "short" THEN b.len ELSE 0]
     IN IF TooSmall(b)
          THEN /\ rec' = seen("short")
               /\ ri' = ri + 1
               /\ UNCHANGED <<pc, last_sequence_, mem_, max_sequence_, faults>>
          ELSE IF IsDuplicate(b.seq, Count(b), last_sequence_)
          THEN /\ rec' = seen("duplicate")
               /\ ri' = ri + 1
               /\ UNCHANGED <<pc, last_sequence_, mem_, max_sequence_, faults>>
          ELSE \E okSplit \in Outcomes, bad \in SUBSET T, k \in 0 .. (MaxEntries - 1),
                  abort \in BOOLEAN :
                 /\ (n = 1) => okSplit
                 /\ ~okSplit => (bad = {} /\ ~abort)
                 /\ (bad = {}) => k = 0
                 /\ abort => (broken # {} /\ bad = {})
                 /\ Cardinality(bad) + Cost(okSplit) <= faults
                 /\ faults' = faults - Cardinality(bad) - Cost(okSplit)
                 /\ IF ~okSplit
                      THEN /\ rec' = seen("splitfail")
                           /\ pc' = "ArchiveLog"
                           /\ UNCHANGED <<ri, last_sequence_, mem_, max_sequence_>>
                      ELSE IF abort
                      THEN /\ rec' = [seen("routed") EXCEPT
                                  !.calls = {InsertCall(i, b, n) : i \in {j \in T : j <= Min(broken)}}]
                           /\ pc' = "aborted"
                           /\ UNCHANGED <<ri, last_sequence_, mem_, max_sequence_>>
                      ELSE /\ rec' = [seen("routed") EXCEPT
                                  !.calls = {InsertCall(i, b, n) : i \in T}]
                           /\ mem_' = [g \in AllLg |->
                                IF g \in T
                                  THEN MemOf(mem_[g].muts \cup
                                         Inserted(LgBatch(b.tags, n, g), b.seq,
                                           IF g \in bad
                                             THEN Min({k, Max({0, Len(LgBatch(b.tags, n, g)) - 1})})
                                             ELSE Len(LgBatch(b.tags, n, g))))
                                  ELSE mem_[g]]
                           /\ max_sequence_' = [g \in AllLg |->
                                IF g \in T
                                  THEN MaxAfterInsert(b.seq, Len(LgBatch(b.tags, n, g)))
                                  ELSE max_sequence_[g]]
                           /\ last_sequence_' = LastAfterRecord(b.seq, Count(b))
                           /\ ri' = ri + 1
                           /\ pc' = pc
  /\ UNCHANGED <<disk, lgList, logfiles_, log_number_, status, ret, gi, li, mi, ti>>
  /\ UNCHANGED <<manifests_, table_numbers_, tables_, next_file_number_, edit_>>
  /\ UNCHANGED <<replayStart, replayed, wd, wdLog, preMan, preSst, crashes>>

  /\ UNCHANGED more
\* ReadRecord returned false: the WAL is exhausted (lines 605, 664).
ReadEof ==
  /\ pc = "ReadRecord"
  /\ ri > Len(wal[logfiles_[li]])
  /\ pc' = "Flush"
  /\ gi' = FirstLg
  /\ UNCHANGED <<disk, coord, li, ri, mi, ti, lgs, obs>>

  /\ handles' = handles \ {<<"lfile", logfiles_[li]>>}
  /\ UNCHANGED <<walLog, tabLog, first, scan>>

\* --------------------------------------------------------------- flushing
\* BuildTable as Repairer::BuildTableFile uses it (lines 287-296): the file
\* stays only when the build succeeded and wrote at least one entry.
BuildTable(files, n, muts, built) ==
  IF built /\ muts # {} THEN Put(files, n, muts) ELSE Del(files, n)

\* A flush loop that ends at the first LG whose flush failed.
AfterFlushStopOnError(i, ok) == IF ok THEN NextLg(i) ELSE NoLg

\* The LG the flush loop goes to after LG i's flush: a failed BuildTableFile
\* or AddTableMeta is logged and the status reset (lines 673-688).
AfterFlush(i, ok) == NextLg(i)

\* One iteration of the flush loop of ConvertLogToTable (lines 666-690):
\* HasMemTable, BuildTableFile (281-303) and, when the build succeeded,
\* AddTableMeta (305-321).
FlushStep ==
  /\ pc = "Flush"
  /\ gi # NoLg
  /\ LET g == RepairerAt(gi)
         n == next_file_number_[g]
         muts == mem_[g].muts
     IN IF ~mem_[g].has
          THEN /\ gi' = NextLg(gi)
               /\ pc' = IF NextLg(gi) = NoLg THEN "ArchiveLog" ELSE pc
               /\ UNCHANGED <<sst, lostSst, tables_, table_numbers_, next_file_number_,
                              mem_, faults, tabLog>>
          ELSE \E okBuild \in Outcomes, okScan \in Outcomes, okMove \in Outcomes :
                 LET built == okBuild /\ g \in lgDir
                     files == BuildTable(sst[g], n, muts, built)
                     scanned == built /\ ScanOk(g, n, files, okScan)
                     moved == built /\ ~scanned /\ ArchiveOk(n \in DOMAIN files, okMove)
                 IN /\ (g \notin lgDir) => okBuild
                    /\ (~built \/ ~ScanOk(g, n, files, TRUE)) => okScan
                    /\ (~built \/ scanned \/ n \notin DOMAIN files) => okMove
                    /\ Cost(okBuild) + Cost(okScan) + Cost(okMove) <= faults
                    /\ faults' = faults - Cost(okBuild) - Cost(okScan) - Cost(okMove)
                    /\ gi' = AfterFlush(gi, built /\ scanned)
                    /\ pc' = IF AfterFlush(gi, built /\ scanned) = NoLg
                               THEN "ArchiveLog" ELSE pc
                    /\ tabLog' = [tabLog EXCEPT ![g] = Append(@,
                         TableEvent("build", n, n \in DOMAIN sst[g],
                                    built /\ n \in DOMAIN files, scanned, moved))]
                    /\ next_file_number_' = [next_file_number_ EXCEPT ![g] = n + 1]
                    /\ mem_' = [mem_ EXCEPT ![g] = NoMem]
                    /\ sst' = [sst EXCEPT ![g] = IF moved THEN Del(files, n) ELSE files]
                    /\ lostSst' = [lostSst EXCEPT ![g] = IF moved THEN @ \cup {n} ELSE @]
                    /\ table_numbers_' = [table_numbers_ EXCEPT
                         ![g] = (@ \o (IF built /\ muts # {} THEN <<n>> ELSE <<>>))
                                   \o (IF scanned THEN <<n>> ELSE <<>>)]
                    /\ tables_' = [tables_ EXCEPT
                         ![g] = IF scanned THEN Append(@, TableInfo(n, files[n])) ELSE @]
  /\ UNCHANGED <<wal, rootLogs, dirOrder, lostLogs, rootOther, lgDir, man, lostMan,
                 tmp, current>>
  /\ UNCHANGED <<coord, li, ri, mi, ti, manifests_, max_sequence_, edit_>>
  /\ UNCHANGED <<rec, replayStart, replayed, wd, wdLog, preMan, preSst, crashes>>

  /\ UNCHANGED <<walLog, first, scan, handles>>
\* ArchiveFile(logname) after the conversion attempt (lines 559-566, 724-726).
ArchiveLog ==
  /\ pc = "ArchiveLog"
  /\ \E okMove \in Outcomes :
       /\ (logfiles_[li] \notin rootLogs) => okMove
       /\ faults' = faults - Cost(okMove)
       /\ walLog' = Append(walLog, <<"archive", logfiles_[li],
                                      ArchiveOk(logfiles_[li] \in rootLogs, okMove)>>)
       /\ IF ArchiveOk(logfiles_[li] \in rootLogs, okMove)
            THEN /\ rootLogs' = rootLogs \ {logfiles_[li]}
                 /\ lostLogs' = lostLogs \cup {logfiles_[li]}
                 /\ rootOther' = TRUE
            ELSE UNCHANGED <<rootLogs, lostLogs, rootOther>>
  /\ li' = li + 1
  /\ pc' = "ConvertLog"
  /\ UNCHANGED <<wal, dirOrder, lgDir, sst, lostSst, man, lostMan, tmp, current>>
  /\ UNCHANGED <<coord, gi, ri, mi, ti, lgs>>
  /\ UNCHANGED <<rec, replayStart, replayed, wd, wdLog, preMan, preSst, crashes>>

  /\ UNCHANGED <<tabLog, first, scan, handles>>
\* The loop of ConvertLogFilesToTables ends; Run goes on to WriteDescriptor
\* (lines 518-519, 709-711).
ConvertDone ==
  /\ pc = "ConvertLog"
  /\ li > Len(logfiles_)
  /\ pc' = "WD_Create"
  /\ gi' = FirstLg
  /\ status' = OK
  /\ UNCHANGED <<disk, lgList, logfiles_, log_number_, last_sequence_, ret>>
  /\ UNCHANGED <<li, ri, mi, ti, lgs, obs>>

  /\ UNCHANGED more

\* The edit with one file entry per element of table_numbers_.
MakeEditFromNumbers(g) ==
  [log_number |-> 0,
   next_file |-> next_file_number_[g],
   last_sequence |-> Max({0} \cup {tables_[g][i].max_sequence : i \in 1 .. Len(tables_[g])}),
   files |-> table_numbers_[g]]

\* ----------------------------------------------------- ScanTable by itself
\* ParseInternalKey (line 357).
ParseInternalKey(key) == key.ok

\* The body of ScanTable's loop for one key without the test of line 357.
ScanKeyBodyNoSkip(t, key) ==
  [t EXCEPT !.counter = @ + 1,
            !.empty = FALSE,
            !.smallest = IF t.empty THEN key ELSE @,
            !.largest = key,
            !.max_sequence = IF key.seq > @ THEN key.seq ELSE @,
            !.i = @ + 1]

\* The body of ScanTable's loop for one key (lines 356-373).
ScanKeyBody(t, key) ==
  IF ~ParseInternalKey(key)
    THEN [t EXCEPT !.skipped = @ + 1, !.i = @ + 1]
    ELSE [t EXCEPT !.counter = @ + 1,
                   !.empty = FALSE,
                   !.smallest = IF t.empty THEN key ELSE @,
                   !.largest = key,
                   !.max_sequence = IF key.seq > @ THEN key.seq ELSE @,
                   !.i = @ + 1]

\* The status ScanTable returns after the loop (lines 375-381).
ScanStatus(t) ==
  IF ~t.iterOk THEN "IteratorError" ELSE IF t.empty THEN "Corruption" ELSE "OK"

\* GetFileSize and the iterator's SeekToFirst (lines 348-355).
ScanOpen ==
  /\ pc = "ScanTable"
  /\ scan.status = "start"
  /\ scan' = [scan EXCEPT !.status = IF scan.sizeOk THEN "iterating" ELSE "IOError",
                          !.i = 1, !.max_sequence = 0]
  /\ UNCHANGED <<disk, coord, cursor, lgs, obs, walLog, tabLog, first, handles>>

\* One iteration of the loop (lines 355-374).
ScanKey ==
  /\ pc = "ScanTable"
  /\ scan.status = "iterating"
  /\ scan.i <= Len(scan.keys)
  /\ scan' = ScanKeyBody(scan, scan.keys[scan.i])
  /\ UNCHANGED <<disk, coord, cursor, lgs, obs, walLog, tabLog, first, handles>>

\* The iterator is no longer valid (lines 375-388).
ScanEnd ==
  /\ pc = "ScanTable"
  /\ scan.status = "iterating"
  /\ scan.i > Len(scan.keys)
  /\ scan' = [scan EXCEPT !.status = ScanStatus(scan)]
  /\ UNCHANGED <<disk, coord, cursor, lgs, obs, walLog, tabLog, first, handles>>

\* ------------------------------------------------------ descriptor install
\* The edit of Repairer::WriteDescriptor (lines 399-416) for LG g.
MakeEdit(g) ==
  [log_number |-> 0,
   next_file |-> next_file_number_[g],
   last_sequence |-> Max({0} \cup {tables_[g][i].max_sequence : i \in 1 .. Len(tables_[g])}),
   files |-> [i \in 1 .. Len(tables_[g]) |-> tables_[g][i].number]]

\* The status of the last LG replacing the one kept.
MergeLast(st, s) == s

\* The status DBRepairer::WriteDescriptor keeps after an LG returned s
\* (lines 713-719).
Merge(st, s) == IF ~IsOk(s) THEN s ELSE st

\* WriteDescriptor going on to the archiving after a failed write or close.
WDAfterWriteUnchecked(step, ok) ==
  CASE step = "create"  -> IF ok THEN "WD_Write" ELSE "return"
    [] step = "write"   -> "WD_Archive"
    [] step = "rename"  -> IF ok THEN "WD_SetCurrent" ELSE "return"
    [] step = "current" -> "return"

\* WriteDescriptor going on to SetCurrentFile after a failed rename.
WDAfterRenameUnchecked(step, ok) ==
  CASE step = "create"  -> IF ok THEN "WD_Write" ELSE "return"
    [] step = "write"   -> IF ok THEN "WD_Archive" ELSE "return"
    [] step = "rename"  -> "WD_SetCurrent"
    [] step = "current" -> "return"

\* WriteDescriptor archiving the old manifests before it writes the temp file.
WDAfterCreateUnchecked(step, ok) ==
  CASE step = "create"  -> IF ok THEN "WD_Write" ELSE "WD_Archive"
    [] step = "write"   -> IF ok THEN "WD_Archive" ELSE "return"
    [] step = "rename"  -> IF ok THEN "WD_SetCurrent" ELSE "return"
    [] step = "current" -> "return"

\* Where Repairer::WriteDescriptor goes after a step that ended ok or not
\* (the tests of lines 395, 425, 431, 441): to its next step or to its return.
WDAfter(step, ok) ==
  CASE step = "create"  -> IF ok THEN "WD_Write" ELSE "return"
    [] step = "write"   -> IF ok THEN "WD_Archive" ELSE "return"
    [] step = "rename"  -> IF ok THEN "WD_SetCurrent" ELSE "return"
    [] step = "current" -> "return"

\* Repairer::WriteDescriptor of LG g returns s: the loop of
\* DBRepairer::WriteDescriptor (lines 712-721) goes to the next LG, and after
\* the last one Run returns (519-521).
WDReturn(g, s) ==
  /\ wd' = [wd EXCEPT ![g] = s]
  /\ status' = Merge(status, s)
  /\ IF NextLg(gi) # NoLg
       THEN /\ gi' = NextLg(gi)
            /\ pc' = "WD_Create"
            /\ ret' = ret
       ELSE /\ gi' = NoLg
            /\ pc' = "done"
            /\ ret' = Merge(status, s)

\* A step of WriteDescriptor of LG g ended with status s.
WDGo(g, step, s) ==
  /\ wdLog' = [wdLog EXCEPT ![g] = Append(@, <<step, 0, IsOk(s)>>)]
  /\ IF WDAfter(step, IsOk(s)) = "return"
       THEN WDReturn(g, s)
       ELSE /\ pc' = WDAfter(step, IsOk(s))
            /\ UNCHANGED <<wd, status, gi, ret>>

\* NewWritableFile(tmp) (lines 392-397).
WDCreate ==
  /\ pc = "WD_Create"
  /\ LET g == RepairerAt(gi)
     IN \E okCreate \in Outcomes :
          /\ (g \notin lgDir) => okCreate
          /\ faults' = faults - Cost(okCreate)
          /\ tmp' = [tmp EXCEPT ![g] = IF okCreate /\ g \in lgDir THEN EmptyTmp ELSE @]
          /\ handles' = IF okCreate /\ g \in lgDir THEN handles \cup {<<"file", g>>}
                                                  ELSE handles
          /\ WDGo(g, "create", IF okCreate /\ g \in lgDir THEN OK
                                                          ELSE Err("NewWritableFile", g))
  /\ UNCHANGED <<wal, rootLogs, dirOrder, lostLogs, rootOther, lgDir, sst, lostSst,
                 man, lostMan, current>>
  /\ UNCHANGED <<lgList, logfiles_, log_number_, last_sequence_, li, ri, mi, ti, lgs>>
  /\ UNCHANGED <<rec, replayStart, replayed, preMan, preSst, crashes>>

  /\ UNCHANGED <<walLog, tabLog, first, scan>>
\* The edit is filled, encoded, written, the file closed and the file
\* object deleted; a failure deletes the temp file (lines 399-432).
WDWrite ==
  /\ pc = "WD_Write"
  /\ LET g == RepairerAt(gi)
     IN /\ edit_' = [edit_ EXCEPT ![g] = MakeEdit(g)]
        /\ \E okWrite \in Outcomes :
             /\ faults' = faults - Cost(okWrite)
             /\ tmp' = [tmp EXCEPT ![g] = IF okWrite THEN WrittenTmp(MakeEdit(g)) ELSE NoTmp]
             /\ WDGo(g, "write", IF okWrite THEN OK ELSE Err("AddRecord/Close", g))
  /\ mi' = 1
  /\ UNCHANGED <<wal, rootLogs, dirOrder, lostLogs, rootOther, lgDir, sst, lostSst,
                 man, lostMan, current>>
  /\ UNCHANGED <<lgList, logfiles_, log_number_, last_sequence_, li, ri, ti>>
  /\ UNCHANGED <<manifests_, table_numbers_, tables_, next_file_number_, mem_,
                 max_sequence_>>
  /\ UNCHANGED <<rec, replayStart, replayed, preMan, preSst, crashes>>

  /\ handles' = handles \ {<<"file", RepairerAt(gi)>>}
  /\ UNCHANGED <<walLog, tabLog, first, scan>>
\* One iteration of "Discard older manifests" (lines 434-437).
WDArchive ==
  /\ pc = "WD_Archive"
  /\ mi <= Len(manifests_[RepairerAt(gi)])
  /\ LET g == RepairerAt(gi)
         m == manifests_[g][mi]
     IN \E okMove \in Outcomes :
          /\ (m \notin DOMAIN man[g]) => okMove
          /\ faults' = faults - Cost(okMove)
          /\ wdLog' = [wdLog EXCEPT
               ![g] = Append(@, <<"archive", m, ArchiveOk(m \in DOMAIN man[g], okMove)>>)]
          /\ IF ArchiveOk(m \in DOMAIN man[g], okMove)
               THEN /\ man' = [man EXCEPT ![g] = Del(@, m)]
                    /\ lostMan' = [lostMan EXCEPT ![g] = @ \cup {m}]
               ELSE UNCHANGED <<man, lostMan>>
  /\ mi' = mi + 1
  /\ UNCHANGED <<wal, rootLogs, dirOrder, lostLogs, rootOther, lgDir, sst, lostSst,
                 tmp, current>>
  /\ UNCHANGED <<coord, pc, gi, li, ri, ti, lgs>>
  /\ UNCHANGED <<rec, replayStart, replayed, wd, preMan, preSst, crashes>>

  /\ UNCHANGED more
\* "Install new manifest": the temp file is renamed to descriptor 1; a
\* failure deletes the temp file (lines 439-445).
WDRename ==
  /\ pc = "WD_Archive"
  /\ mi > Len(manifests_[RepairerAt(gi)])
  /\ LET g == RepairerAt(gi)
     IN \E okRename \in Outcomes :
          /\ (tmp[g].state = "none") => okRename
          /\ faults' = faults - Cost(okRename)
          /\ tmp' = [tmp EXCEPT ![g] = NoTmp]
          /\ man' = [man EXCEPT ![g] = IF okRename /\ tmp[g].state # "none"
                                         THEN Put(@, 1, NewManifest(tmp[g].edit)) ELSE @]
          /\ WDGo(g, "rename", IF okRename /\ tmp[g].state # "none"
                                 THEN OK ELSE Err("RenameFile", g))
  /\ UNCHANGED <<wal, rootLogs, dirOrder, lostLogs, rootOther, lgDir, sst, lostSst,
                 lostMan, current>>
  /\ UNCHANGED <<lgList, logfiles_, log_number_, last_sequence_, li, ri, mi, ti, lgs>>
  /\ UNCHANGED <<rec, replayStart, replayed, preMan, preSst, crashes>>

  /\ UNCHANGED more
\* SetCurrentFile(env_, dbname_, 1) (line 442).
WDSetCurrent ==
  /\ pc = "WD_SetCurrent"
  /\ LET g == RepairerAt(gi)
     IN \E okSet \in Outcomes :
          /\ faults' = faults - Cost(okSet)
          /\ current' = [current EXCEPT ![g] = IF okSet THEN 1 ELSE @]
          /\ WDGo(g, "current", IF okSet THEN OK ELSE Err("SetCurrentFile", g))
  /\ UNCHANGED <<wal, rootLogs, dirOrder, lostLogs, rootOther, lgDir, sst, lostSst,
                 man, lostMan, tmp>>
  /\ UNCHANGED <<lgList, logfiles_, log_number_, last_sequence_, li, ri, mi, ti, lgs>>
  /\ UNCHANGED <<rec, replayStart, replayed, preMan, preSst, crashes>>

  /\ UNCHANGED more
\* ------------------------------------------------------------ stop, rerun
\* The process ends where it is (or has returned) and RepairDB (lines
\* 741-744) is called again on the directory as it is: a new DBRepairer.
Crash ==
  /\ crashes > 0
  /\ pc # "FindFiles"
  /\ crashes' = crashes - 1
  /\ logfiles_' = <<>> /\ log_number_' = 0 /\ last_sequence_' = 0
  /\ status' = OK /\ ret' = OK
  /\ pc' = "FindFiles" /\ gi' = NoLg /\ li' = 1 /\ ri' = 1 /\ mi' = 1 /\ ti' = 1
  /\ manifests_' = [g \in AllLg |-> <<>>]
  /\ table_numbers_' = [g \in AllLg |-> <<>>]
  /\ tables_' = [g \in AllLg |-> <<>>]
  /\ next_file_number_' = [g \in AllLg |-> 1]
  /\ mem_' = [g \in AllLg |-> NoMem]
  /\ max_sequence_' = [g \in AllLg |-> 0]
  /\ edit_' = [g \in AllLg |-> NullEdit]
  /\ rec' = [kind |-> "none", seq |-> 0, count |-> 0, last |-> 0, calls |-> {},
           len |-> 0, bytes |-> 0]
  /\ replayStart' = 0 /\ replayed' = <<>>
  /\ wd' = [g \in AllLg |-> NotRun]
  /\ wdLog' = [g \in AllLg |-> <<>>]
  /\ walLog' = <<>>
  /\ tabLog' = [g \in AllLg |-> <<>>]
  /\ handles' = {}
  /\ UNCHANGED <<disk, lgList, preMan, preSst, faults, first, scan>>

\* ----------------------------------------------------------- specifications
Next ==
  \/ DBFindFiles
  \/ ScanStep
  \/ ExtractDone
  \/ OpenLog
  \/ ReadRecord
  \/ ReadEof
  \/ FlushStep
  \/ ArchiveLog
  \/ ConvertDone
  \/ WDCreate
  \/ WDWrite
  \/ WDArchive
  \/ WDRename
  \/ WDSetCurrent

NextCrash == Next \/ Crash

\* RepairDB (lines 741-744) returned OK, no WAL file is left in the root, and
\* RepairDB is called again on the directory: a new DBRepairer and new
\* Repairers; first keeps the descriptors the run installed.
Rerun ==
  /\ pc = "done"
  /\ IsOk(ret)
  /\ ~first.ran
  /\ rootLogs = {}
  /\ first' = [ran |-> TRUE, faults |-> faults,
               edit |-> [g \in AllLg |->
                           IF g \in lgList /\ 1 \in DOMAIN man[g] THEN man[g][1].edit
                                                                  ELSE NullEdit]]
  /\ logfiles_' = <<>> /\ log_number_' = 0 /\ last_sequence_' = 0
  /\ status' = OK /\ ret' = OK
  /\ pc' = "FindFiles" /\ gi' = NoLg /\ li' = 1 /\ ri' = 1 /\ mi' = 1 /\ ti' = 1
  /\ manifests_' = [g \in AllLg |-> <<>>]
  /\ table_numbers_' = [g \in AllLg |-> <<>>]
  /\ tables_' = [g \in AllLg |-> <<>>]
  /\ next_file_number_' = [g \in AllLg |-> 1]
  /\ mem_' = [g \in AllLg |-> NoMem]
  /\ max_sequence_' = [g \in AllLg |-> 0]
  /\ edit_' = [g \in AllLg |-> NullEdit]
  /\ rec' = [kind |-> "none", seq |-> 0, count |-> 0, last |-> 0, calls |-> {},
           len |-> 0, bytes |-> 0]
  /\ replayStart' = 0 /\ replayed' = <<>>
  /\ wd' = [g \in AllLg |-> NotRun]
  /\ wdLog' = [g \in AllLg |-> <<>>]
  /\ walLog' = <<>>
  /\ tabLog' = [g \in AllLg |-> <<>>]
  /\ handles' = {}
  /\ UNCHANGED <<disk, lgList, preMan, preSst, faults, crashes, scan>>

NextRerun == Next \/ Rerun

LgLists == {0 .. (n - 1) : n \in 1 .. MaxLgs}
DirsPresent(lgl) == {lgl}
DirsMaybe(lgl) == {lgl, {}}
OneManifest == {<<[n \in {1} |-> OldManifest], 1>>}

\* Spec: repair of a directory with up to MaxLogs WAL files, at most
\* ReplayFaults failing Env operations.
ReplayWal(lgl) == WalChoices(Records(lgl, SeqIn, MaxEntries), MaxLogs, MaxRecs, AnyOrder)
ReplayTables(g) == {NoFiles, Put(NoFiles, 1, {Mut(g, 1)})}

Init == InitWith(LgLists, ReplayWal, ReplayTables, OneManifest, DirsPresent, ReplayFaults, 0)
Spec == Init /\ [][Next]_vars

\* SpecInstall: every arrangement of old descriptors and CURRENT, LG
\* subdirectories that may be missing, up to MaxFaults failing operations,
\* and at most InstallLogs WAL files of InstallRecs records.
InstallWal(lgl) ==
  WalChoices(Records(lgl, {1}, InstallRecs), InstallLogs, InstallRecs, AnyOrder)
InstallTables(g) == TableChoices(g, {1})

InitInstall ==
  InitWith(LgLists, InstallWal, InstallTables, ManChoices(1 .. MaxManifest), DirsMaybe,
           MaxFaults, 0)
SpecInstall == InitInstall /\ [][Next]_vars

\* SpecCrash: no Env operation fails, the directory lists the WAL files in
\* ascending order, and the process is stopped up to MaxCrash times at any
\* point and repair run again.
CrashWal(lgl) == WalChoices(Records(lgl, SeqIn, MaxEntries), MaxLogs, MaxRecs, Ascending)

InitCrash ==
  InitWith(LgLists, CrashWal, ReplayTables, OneManifest, DirsPresent,
           0, MaxCrash)
SpecCrash == InitCrash /\ [][NextCrash]_vars


\* SpecRerun: repair of a directory whose table 1 may have no parseable key,
\* with up to RerunLogs WAL files and RerunFaults failing operations, run
\* again after it returned OK and left no WAL file.
RerunWal(lgl) == WalChoices(Records(lgl, {1}, MaxEntries), RerunLogs, RerunRecs, Ascending)
RerunTables(g) == TableChoices(g, {1})

InitRerun ==
  InitWith(LgLists, RerunWal, RerunTables, OneManifest, DirsPresent, RerunFaults, 0)
SpecRerun == InitRerun /\ [][NextRerun]_vars

\* SpecLgs: repair with any non-empty set of LG ids as exist_lg_list, one
\* WAL file at most and one failing operation at most.
AnyLgLists == (SUBSET AllLg) \ {{}}

InitLgs ==
  InitWith(AnyLgLists, RerunWal, ReplayTables, OneManifest, DirsPresent, RerunFaults, 0)
SpecLgs == InitLgs /\ [][Next]_vars

\* SpecScan: ScanTable on every sequence of up to MaxKeys keys, with and
\* without a failing GetFileSize and a failing iterator.
ScanKeys ==
  {[ok |-> TRUE, user |-> u, seq |-> q] : u \in 1 .. MaxUser, q \in 1 .. MaxKeySeq}
    \cup {[ok |-> FALSE, user |-> 1, seq |-> MaxKeySeq]}

InitScan ==
  /\ lgList = {0} /\ wal = <<>> /\ dirOrder = <<>> /\ rootLogs = {} /\ lostLogs = {}
  /\ lgDir = {0} /\ rootOther = TRUE
  /\ sst = [g \in AllLg |-> NoFiles] /\ lostSst = [g \in AllLg |-> {}]
  /\ man = [g \in AllLg |-> NoFiles] /\ lostMan = [g \in AllLg |-> {}]
  /\ current = [g \in AllLg |-> 0] /\ tmp = [g \in AllLg |-> NoTmp]
  /\ preMan = [g \in AllLg |-> {}] /\ preSst = sst
  /\ faults = 0 /\ crashes = 0 /\ first = NoFirst /\ handles = {}
  /\ logfiles_ = <<>> /\ log_number_ = 0 /\ last_sequence_ = 0
  /\ status = OK /\ ret = OK
  /\ pc = "ScanTable" /\ gi = NoLg /\ li = 1 /\ ri = 1 /\ mi = 1 /\ ti = 1
  /\ manifests_ = [g \in AllLg |-> <<>>]
  /\ table_numbers_ = [g \in AllLg |-> <<>>]
  /\ tables_ = [g \in AllLg |-> <<>>]
  /\ next_file_number_ = [g \in AllLg |-> 1]
  /\ mem_ = [g \in AllLg |-> NoMem]
  /\ max_sequence_ = [g \in AllLg |-> 0]
  /\ edit_ = [g \in AllLg |-> NullEdit]
  /\ rec = [kind |-> "none", seq |-> 0, count |-> 0, last |-> 0, calls |-> {},
           len |-> 0, bytes |-> 0]
  /\ replayStart = 0 /\ replayed = <<>>
  /\ wd = [g \in AllLg |-> NotRun]
  /\ wdLog = [g \in AllLg |-> <<>>]
  /\ walLog = <<>>
  /\ tabLog = [g \in AllLg |-> <<>>]
  /\ \E ks \in SeqsUpTo(ScanKeys, MaxKeys), okSize \in BOOLEAN, okIter \in BOOLEAN :
       scan = [NoScan EXCEPT !.keys = ks, !.sizeOk = okSize, !.iterOk = okIter,
                             !.status = "start"]

NextScan == ScanOpen \/ ScanKey \/ ScanEnd
SpecScan == InitScan /\ [][NextScan]_vars


\* ============================================================= properties
\* The mutations in the tables LG g's repairer retained (tables_).
Retained(g) ==
  UNION {sst[g][tables_[g][i].number] :
           i \in {j \in 1 .. Len(tables_[g]) : tables_[g][j].number \in DOMAIN sst[g]}}

\* What a repair that is never stopped and meets no failing operation puts
\* into the retained tables of the LGs: the tables found with a parseable key
\* and, WAL by WAL in ascending order, the records that were not dropped.
RECURSIVE Concat(_, _)
Concat(w, nums) == IF nums = <<>> THEN <<>> ELSE w[Head(nums)] \o Concat(w, Tail(nums))

RECURSIVE Routed(_, _, _, _)
Routed(recs, i, last, n) ==
  IF i > Len(recs) THEN {}
  ELSE IF recs[i].short \/ IsDuplicate(recs[i].seq, Count(recs[i]), last)
    THEN Routed(recs, i + 1, last, n)
    ELSE UNION {{<<g, m>> : m \in Inserted(LgBatch(recs[i].tags, n, g), recs[i].seq,
                                              Len(LgBatch(recs[i].tags, n, g)))}
                  : g \in Targets(recs[i].tags, n)}
           \cup Routed(recs, i + 1, LastAfterRecord(recs[i].seq, Count(recs[i])), n)

FoundMax == Max({0} \cup {m.seq : m \in UNION {UNION {preSst[g][t] : t \in DOMAIN preSst[g]}
                                                 : g \in lgList}})
Uninterrupted(g) ==
  UNION {preSst[g][t] : t \in DOMAIN preSst[g]}
    \cup {p[2] : p \in {q \in Routed(Concat(wal, SortedSeq(DOMAIN wal)), 1, FoundMax,
                                      Cardinality(lgList)) : q[1] = g}}

\* A run that was never stopped and met no failure retains exactly that.
UninterruptedAgrees ==
  (pc = "done" /\ crashes = MaxCrash) => \A g \in lgList : Retained(g) = Uninterrupted(g)

\* C1: when repair is stopped at any point and then run again to the end,
\* every mutation an uninterrupted repair would have put into an LG's
\* retained tables is in that LG's retained tables after the second run.
C1_RerunKeepsMutations ==
  (pc = "done" /\ crashes < MaxCrash) =>
     \A g \in lgList : Uninterrupted(g) \subseteq Retained(g)

\* The record the replay loop has just looked at was a well-formed batch.
SawBatch == rec.kind \in {"duplicate", "routed", "splitfail"}

\* C2 as the specification states it: during WAL replay a record is dropped
\* as a duplicate exactly when sequence + count - 1 <= last_sequence, and is
\* passed on to the LG memtables otherwise.
C2_DropsByLastSequence ==
  SawBatch => ((rec.kind = "duplicate") <=> (LastOf(rec.seq, rec.count) <= rec.last))

\* C2: during WAL replay a record is dropped as a duplicate exactly when its
\* first sequence number is <= last_sequence (so a record that starts at or
\* below last_sequence and extends above it is dropped whole), and every other
\* record is passed on to the LG split.
C2_DropsByFirstSequence ==
  SawBatch => ((rec.kind = "duplicate") <=> (rec.seq <= rec.last))

\* A record that starts at or below last_sequence and ends above it was dropped.
C2_StraddlingDropped ==
  /\ rec.kind = "duplicate"
  /\ rec.seq <= rec.last
  /\ rec.seq + rec.count - 1 > rec.last

\* C3: with L0 the value of last_sequence when replay starts, no record whose
\* sequence range lies at or below L0 is inserted into any memtable.
C3_NoOldRecordInserted ==
  (rec.kind = "routed" /\ rec.count > 0) => rec.seq + rec.count - 1 > replayStart

\* C4: whenever a batch with sequence s is inserted into an LG's memtable,
\* s is greater than that LG's max_sequence before the insert, and the LG's
\* max_sequence afterwards is s + count - 1.
C4_InsertAboveMax ==
  \A c \in rec.calls :
     /\ c.seq > c.maxBefore
     /\ c.maxAfter = LastOf(c.seq, c.count)

\* C10: WAL files are replayed in ascending order of file number.
C10_AscendingReplay ==
  \A i, j \in DOMAIN replayed : i < j => replayed[i] < replayed[j]

\* What the steps of LG g's WriteDescriptor were, so far.
Steps(g) == Range(wdLog[g])
TempWritten(g) == <<"write", 0, TRUE>> \in Steps(g)
ArchiveTried(g) == {e[2] : e \in {x \in Steps(g) : x[1] = "archive"}}
Installed(g) ==
  /\ {<<"write", 0, TRUE>>, <<"rename", 0, TRUE>>, <<"current", 0, TRUE>>} \subseteq Steps(g)
  /\ 1 \in DOMAIN man[g]
  /\ man[g][1] = NewManifest(MakeEdit(g))
  /\ current[g] = 1
Failing == {g \in lgList : wd[g] \notin {OK, NotRun}}
Found == ret[1] \notin {"GetChildren", "IOError: repair found no files"}

\* C5 as the specification states it: after a repair run an LG's pre-existing
\* manifests have been moved away exactly when its descriptor install
\* succeeded, and none has been archived when the temp file create, write,
\* close or rename failed.
C5_ArchivedIffInstalled ==
  pc = "done" =>
     \A g \in lgList :
        /\ (wd[g] = OK => preMan[g] \subseteq lostMan[g])
        /\ (wd[g] \notin {OK, NotRun} => lostMan[g] = {})

\* C5: an LG's pre-existing manifests are moved away only after its temp
\* descriptor was created, written and closed successfully: when one of these
\* fails none has been archived, and when they succeed an archive has been
\* attempted for every manifest that discovery listed, whatever the rename to
\* the canonical path and the CURRENT update do afterwards.
C5_ArchivedOnceTempWritten ==
  \A g \in lgList :
     /\ (lostMan[g] # {} \/ ArchiveTried(g) # {}) => TempWritten(g)
     /\ lostMan[g] \subseteq ArchiveTried(g)
     /\ (wd[g] # NotRun /\ TempWritten(g)) => ArchiveTried(g) = Range(manifests_[g])
     /\ (wd[g] # NotRun /\ ~TempWritten(g)) => \A n \in preMan[g] : n \in DOMAIN man[g]

\* The rename to the canonical path failed after old manifests were archived.
C5_ArchivedThenRenameFailed ==
  /\ pc = "done"
  /\ \E g \in lgList : wd[g] = Err("RenameFile", g) /\ lostMan[g] # {}

\* C6: in the descriptor install of an LG the temp descriptor is written and
\* closed successfully before any old manifest is archived, CURRENT is
\* rewritten only after the temp file was renamed to the canonical path, and
\* a failed rename leaves CURRENT as it was.
C6_InstallOrder ==
  \A g \in lgList :
     LET L == wdLog[g]
     IN /\ \A i \in DOMAIN L :
             L[i][1] = "archive" => \E j \in 1 .. (i - 1) : L[j] = <<"write", 0, TRUE>>
        /\ \A i \in DOMAIN L :
             L[i][1] = "current" => \E j \in 1 .. (i - 1) : L[j] = <<"rename", 0, TRUE>>
        /\ <<"rename", 0, FALSE>> \in Steps(g) => \A e \in Steps(g) : e[1] # "current"
        /\ lostMan[g] # {} => TempWritten(g)
        /\ (current[g] = 1 /\ <<"current", 0, TRUE>> \in Steps(g)) =>
              (1 \in DOMAIN man[g] /\ man[g][1] = NewManifest(edit_[g]))

\* An install that went through every step, with an old manifest to archive.
C6_WholeInstall ==
  \E g \in lgList :
     /\ ArchiveTried(g) # {}
     /\ {<<"write", 0, TRUE>>, <<"rename", 0, TRUE>>, <<"current", 0, TRUE>>} \subseteq Steps(g)

\* CURRENT of LG g names a descriptor that repair moved to lost/ and that is
\* not at its path.
Dangling(g) ==
  /\ current[g] # 0
  /\ current[g] \in lostMan[g]
  /\ current[g] \notin DOMAIN man[g]

\* C7 as the specification states it: at every point where the process could
\* stop, CURRENT never names a descriptor that repair has moved out of the LG
\* directory.
C7_CurrentNeverDangles == \A g \in lgList : ~Dangling(g)

\* C7: the descriptor that CURRENT named before repair stays at its path
\* until the temp descriptor has been written and closed; from the archiving
\* of the old manifests on, CURRENT can name a descriptor that is under lost/.
C7_CurrentKeptUntilTempWritten == \A g \in lgList : Dangling(g) => TempWritten(g)

\* CURRENT names an archived descriptor while the new one is still a temp file.
C7_DanglingBeforeRename ==
  \E g \in lgList : Dangling(g) /\ tmp[g].state = "written" /\ pc = "WD_Archive"

\* C8: when the descriptor install fails for more than one LG, repair returns
\* the status of the first failing LG in ascending LG-id order.
C8_FirstFailureReturned ==
  (pc = "done" /\ Cardinality(Failing) > 1) => ret = wd[Min(Failing)]

\* C9: once discovery at the root succeeded, WriteDescriptor is attempted for
\* every LG of exist_lg_list, also after an earlier LG failed, and repair
\* returns OK exactly when the install of every LG succeeded.
C9_AllAttemptedOkIffAll ==
  (pc = "done" /\ Found) =>
     /\ \A g \in lgList : wd[g] # NotRun /\ wdLog[g] # <<>>
     /\ \A g \in lgList : (wd[g] = OK) <=> Installed(g)
     /\ IsOk(ret) <=> \A g \in lgList : Installed(g)

\* A later LG was installed after an earlier one had failed.
C9_InstalledAfterFailure ==
  /\ pc = "done"
  /\ ~IsOk(ret)
  /\ \E g, h \in lgList : g < h /\ wd[g] \notin {OK, NotRun} /\ Installed(h)

\* C11: when the replay of a WAL begins no LG repairer holds a memtable:
\* every memtable created while a WAL was replayed has been flushed and
\* released before that WAL is archived and before the next WAL is opened.
C11_NoMemtableBetweenWals ==
  pc \in {"ArchiveLog", "ConvertLog"} => \A g \in lgList : ~mem_[g].has

\* The descriptor this run put at LG g's canonical path.
HasDescriptor(g) ==
  /\ <<"rename", 0, TRUE>> \in Steps(g)
  /\ 1 \in DOMAIN man[g]
  /\ man[g][1].new
Descriptor(g) == man[g][1].edit
FileSeqs(g, n) == IF n \in DOMAIN sst[g] THEN {m.seq : m \in sst[g][n]} ELSE {}

\* C12: the descriptor synthesized for an LG has log_number 0, last_sequence
\* equal to the largest max_sequence of the LG's retained tables (0 without
\* any), and one file entry per retained table, none listed twice, so that
\* last_sequence is >= every sequence number in every referenced file.
C12_DescriptorOfRetainedTables ==
  \A g \in lgList :
     HasDescriptor(g) =>
        LET e == Descriptor(g)
        IN /\ e.log_number = 0
           /\ e.last_sequence =
                Max({0} \cup {tables_[g][i].max_sequence : i \in 1 .. Len(tables_[g])})
           /\ Len(e.files) = Len(tables_[g])
           /\ \A i \in DOMAIN e.files : e.files[i] = tables_[g][i].number
           /\ \A i, j \in DOMAIN e.files : i # j => e.files[i] # e.files[j]
           /\ \A n \in Range(e.files) : \A q \in FileSeqs(g, n) : q <= e.last_sequence
           /\ e.last_sequence = Max({0} \cup UNION {FileSeqs(g, n) : n \in Range(e.files)})

\* A descriptor that lists a table found at discovery and one built from a WAL.
C12_OldAndBuiltListed ==
  \E g \in lgList :
     /\ HasDescriptor(g)
     /\ \E a, b \in DOMAIN tabLog[g] :
          /\ tabLog[g][a].op = "scan" /\ tabLog[g][b].op = "build"
          /\ {tabLog[g][a].number, tabLog[g][b].number} \subseteq Range(Descriptor(g).files)

\* What Repairer::FindFiles of LG g listed: the tables it handed to the scan
\* and the descriptors it kept for archiving.
ListedTables(g) == {tabLog[g][i].number : i \in {j \in DOMAIN tabLog[g] : tabLog[g][j].op = "scan"}}
ListedManifests(g) == Range(manifests_[g])

Builds(g) == {i \in DOMAIN tabLog[g] : tabLog[g][i].op = "build"}

\* C14: every number given to a table built from a WAL is greater than every
\* table number observed in the LG's directory and differs from every other
\* number given in the run, so a flush never writes over an existing table.
C14_FreshTableNumbers ==
  \A g \in lgList :
     \A i \in Builds(g) :
        /\ \A n \in ListedTables(g) : tabLog[g][i].number > n
        /\ \A j \in Builds(g) : i # j => tabLog[g][i].number # tabLog[g][j].number
        /\ ~tabLog[g][i].existed

\* The numbers in the file list of LG g's descriptor, none before it exists.
Referenced(g) == IF HasDescriptor(g) THEN Range(Descriptor(g).files) ELSE {}

Parseable(keys) == SelectSeq(keys, LAMBDA k : k.ok)

\* C16: for keys yielded by an iterator that ends without error, the scan
\* returns the first parseable key as smallest, the last parseable key as
\* largest and the largest sequence number of the parseable keys; it skips
\* keys that do not parse, and fails with Corruption exactly when no key
\* parses.
C16_ScanOfParseableKeys ==
  (scan.sizeOk /\ scan.iterOk /\ scan.status \notin {"none", "start", "iterating"}) =>
     LET P == Parseable(scan.keys)
     IN /\ scan.status \in {"OK", "Corruption"}
        /\ (scan.status = "Corruption") <=> (P = <<>>)
        /\ scan.skipped = Len(scan.keys) - Len(P)
        /\ scan.counter = Len(P)
        /\ (scan.status = "OK") =>
              /\ scan.smallest = P[1]
              /\ scan.largest = P[Len(P)]
              /\ scan.max_sequence = Max({k.seq : k \in Range(P)})

\* A scan that passed although its first and its last key did not parse.
C16_SkippedAtBothEnds ==
  /\ scan.status = "OK"
  /\ Len(scan.keys) = MaxKeys
  /\ ~scan.keys[1].ok
  /\ ~scan.keys[MaxKeys].ok

\* The WAL a step of walLog is about.
WalAt(k) == logfiles_[(k + 1) \div 2]

\* C17: every WAL that discovery found is opened and then gets one archive
\* attempt before the next WAL is opened, whatever the conversion returned;
\* once the conversions are over every WAL had exactly one; a flush loop
\* that was entered leaves no LG with a memtable, whether or not an earlier
\* LG's flush failed.
C17_EachWalArchivedOnce ==
  /\ \A i, j \in DOMAIN logfiles_ : logfiles_[i] = logfiles_[j] => i = j
  /\ Len(walLog) <= 2 * Len(logfiles_)
  /\ \A k \in DOMAIN walLog :
       /\ walLog[k][1] = (IF k % 2 = 1 THEN "open" ELSE "archive")
       /\ walLog[k][2] = WalAt(k)
  /\ pc \in {"ReadRecord", "Flush", "ArchiveLog"} => Len(walLog) = 2 * li - 1
  /\ pc = "ConvertLog" => Len(walLog) = 2 * (li - 1)
  /\ pc \notin {"FindFiles", "ExtractMetaData", "ConvertLog", "ReadRecord", "Flush",
              "ArchiveLog", "aborted"} => Len(walLog) = 2 * Len(logfiles_)
  /\ (pc = "ArchiveLog" /\ walLog[Len(walLog)][3] /\ rec.kind # "splitfail") =>
        \A g \in lgList : ~mem_[g].has

\* Two WALs were archived; LG 0's flush failed, LG 1's table was built and
\* is retained.
C17_FlushFailedOthersWent ==
  /\ pc = "done"
  /\ Len(walLog) = 4
  /\ faults < ReplayFaults
  /\ \E i \in DOMAIN tabLog[0] :
        tabLog[0][i].op = "build" /\ ~tabLog[0][i].scanned
  /\ 1 \in lgList
  /\ \E i \in DOMAIN tabLog[1] :
        tabLog[1][i].op = "build" /\ tabLog[1][i].scanned

\* The mutations of table n of LG g, and those of the tables the LG's
\* directory held when repair started.
FileMuts(g, n) == IF n \in DOMAIN sst[g] THEN sst[g][n] ELSE {}
FoundMuts(g) == UNION {preSst[g][t] : t \in DOMAIN preSst[g]}

\* The mutations in the tables LG g's installed descriptor references.
Held(g) == UNION {FileMuts(g, n) : n \in Referenced(g)}

\* The run ended well for a database of the single LG 0 and no operation failed.
OneLgClean == pc = "done" /\ IsOk(ret) /\ lgList = {0} /\ faults = ReplayFaults

\* The records of the WAL files in the order of their replay.
ReplayRecords == Concat(wal, logfiles_)

\* The entries of a write batch with the sequence numbers they are written
\* with (64-bit arithmetic).
Entries(b) == {Mut(b.tags[j], (b.seq + j - 1) % Top) : j \in 1 .. Len(b.tags)}

\* The entries of the parseable records whose sequence is above the last
\* sequence number of the records kept before them, starting from last.
RECURSIVE AboveRunning(_, _, _)
AboveRunning(recs, i, last) ==
  IF i > Len(recs) THEN {}
  ELSE IF recs[i].short \/ recs[i].seq <= last
    THEN AboveRunning(recs, i + 1, last)
    ELSE Entries(recs[i])
           \cup AboveRunning(recs, i + 1, (recs[i].seq + Len(recs[i].tags) + Top - 1) % Top)

SecondRunClean ==
  first.ran /\ pc = "done" /\ IsOk(ret) /\ faults = first.faults

\* The tables with a parseable key in LG g's directory.
ParseableTables(g) == {n \in DOMAIN sst[g] : sst[g][n] # {}}

EndedOnEmptyRoot == pc = "done" /\ rootLogs = {} /\ lgDir = {} /\ ~rootOther

\* C20 as stated: on a root directory without children repair fails with a
\* status of kind NotFound.
C20_EmptyRootNotFound ==
  EndedOnEmptyRoot => ret[1] = "NotFound"

\* C20 amended: on a root directory without children repair fails with the
\* IOError "repair found no files" (or with the error of the listing itself
\* when that fails), writes nothing, and that IOError is returned for no
\* other directory.
C20_EmptyRootIOError ==
  /\ EndedOnEmptyRoot =>
        /\ ret[1] \in {"IOError: repair found no files", "GetChildren"}
        /\ (faults = MaxFaults) => ret = Err("IOError: repair found no files", NoLg)
        /\ \A g \in lgList : wdLog[g] = <<>> /\ tmp[g] = NoTmp
  /\ (pc = "done" /\ ret[1] = "IOError: repair found no files") => EndedOnEmptyRoot

\* Repair of a root without children returned the IOError.
C20_NoFilesReturned ==
  /\ EndedOnEmptyRoot
  /\ ret = Err("IOError: repair found no files", NoLg)
  /\ Cardinality(lgList) = MaxLgs

\* The replay loop is about to read a record of fewer than HeaderSize bytes.
AtShortRecord ==
  /\ pc = "ReadRecord"
  /\ ri <= Len(wal[logfiles_[li]])
  /\ wal[logfiles_[li]][ri].len < 12

\* C21: a WAL record shorter than 12 bytes is reported as corruption of
\* exactly its own length and skipped: the step changes neither
\* last_sequence nor any LG's memtable or max_sequence, and the loop goes on
\* to the next record of the same WAL.
C21_ShortRecordSkipped ==
  [][AtShortRecord =>
       /\ rec'.kind = "short"
       /\ rec'.bytes = wal[logfiles_[li]][ri].len
       /\ last_sequence_' = last_sequence_
       /\ mem_' = mem_
       /\ max_sequence_' = max_sequence_
       /\ pc' = "ReadRecord"
       /\ li' = li
       /\ ri' = ri + 1]_vars

\* A record of 11 bytes was skipped and the batch after it in the same WAL
\* reached a memtable.
C21_ReplayedAfterShort ==
  /\ pc = "ReadRecord"
  /\ ri = 3
  /\ wal[logfiles_[li]][1].len = 11
  /\ rec.kind = "routed"
  /\ rec.calls # {}
  /\ \E g \in lgList : mem_[g].has /\ mem_[g].muts # {}

\* The file objects the operation in progress may hold: the WAL of the
\* conversion that is reading records, the temp file of the WriteDescriptor
\* that is about to write it.
InScope ==
  IF pc = "ReadRecord" THEN {<<"lfile", logfiles_[li]>>}
  ELSE IF pc = "WD_Write" THEN {<<"file", RepairerAt(gi)>>}
  ELSE {}

\* C22: every file object repair creates (the SequentialFile of a WAL
\* conversion, the WritableFile of the temp descriptor) is released before
\* the operation that created it returns, on every exit path including the
\* failed LG split.
C22_HandlesReleased ==
  pc # "aborted" => handles \subseteq InScope

\* WAL replay is in progress.
InReplay == pc \in {"ConvertLog", "ReadRecord", "Flush", "ArchiveLog"}

\* C23: after a record that is not dropped was processed last_sequence is
\* the record's sequence + count - 1, whether or not a per-LG insert failed;
\* during replay last_sequence never decreases and is at least every LG's
\* max_sequence.
C23_LastSequenceAdvances ==
  /\ (rec.kind = "routed") =>
        /\ last_sequence_ = rec.seq + rec.count - 1
        /\ last_sequence_ >= rec.last
  /\ InReplay => \A g \in lgList : last_sequence_ >= max_sequence_[g]

\* C24: for every non-empty exist_lg_list, every per-LG step of the
\* coordinator for LG id g addresses an existing repairer, the one
\* constructed for subdirectory g; no lookup is out of range.
C24_RepairerOfItsLg ==
  (pc # "FindFiles") =>
     /\ pc # "undefined"
     /\ \A id \in lgList : RepairerAt(id) = id

====
